---- MODULE Spec2Model ----
(***************************************************************************)
(* A model of the TreeNode class of mini-ete3-js (phylo-js) and of its     *)
(* helper functions.  A node is an integer identity; the fields of the     *)
(* TreeNode objects are functions over the identities.  A JavaScript array *)
(* may have empty slots (`delete a[i]`): a slot of `children` holds a node *)
(* or EMPTY.                                                               *)
(***************************************************************************)
EXTENDS Integers, Sequences, FiniteSets, TLC

\* ------------------------------------------------------------------ bounds
NumNodes == 6        \* node identities the model can construct
MaxInitNodes == 4    \* largest forest of the general initial states
MaxOps == 1          \* operations called in one behaviour
MaxTargets == 3      \* longest target list handed to getCommonAncestor / prune

\* --------------------------------------------------------------- constants
DEFAULT_DIST == 1
DEFAULT_SUPPORT == 1
DEFAULT_NAME == ""

NULL == 0            \* `null` (TreeNode.up of a root)
EMPTY == 0           \* an empty slot of a JavaScript array (a hole)

Nodes == 1..NumNodes

VARIABLES up, children, name, dist, support, alloc, last, pre, budget

vars == <<up, children, name, dist, support, alloc, last, pre, budget>>

\* The object graph as one value: the operations are functions on it.
Heap == [up |-> up, children |-> children, name |-> name, dist |-> dist,
         support |-> support, alloc |-> alloc]

\* ----------------------------------------------------------- JS helpers
\* An optional argument is the empty set (absent) or a singleton.
Given(a) == a # {}
ValOf(a) == CHOOSE v \in a : TRUE
TruthyNum(a) == Given(a) /\ ValOf(a) # 0
TruthyStr(a) == Given(a) /\ ValOf(a) # ""

\* Array.prototype.indexOf: the first index holding x, 0 when there is none
\* (JavaScript's -1).  An empty slot never matches a node.
IndexOf(s, x) ==
  IF \E i \in 1..Len(s) : s[i] = x
  THEN CHOOSE i \in 1..Len(s) : s[i] = x /\ \A j \in 1..(i - 1) : s[j] # x
  ELSE 0

\* Array.prototype.forEach visits the slots that hold an element, in order.
RECURSIVE Present(_)
Present(s) ==
  IF s = <<>> THEN <<>>
  ELSE IF Head(s) = EMPTY THEN Present(Tail(s))
  ELSE <<Head(s)>> \o Present(Tail(s))

\* Array.prototype.reverse (empty slots move with their index).
Reverse(s) == [i \in 1..Len(s) |-> s[Len(s) + 1 - i]]

Range(s) == {s[i] : i \in 1..Len(s)}

\* ------------------------------------------------------------ outcomes
NoError == "none"
ChildNotFound == "TreeError: Error: child not found"
NoParentAddSister == "TreeError: Error: A parent node is required to add a sister"
NoParentRemoveSister == "Error: A parent node is required to remove a sister"
InvalidNodeType == "TreeError: Invalid node type"
TypeError == "TypeError"

Outcome(h, r, e) == [st |-> h, ret |-> r, err |-> e]

\* ------------------------------------------------------------ constructor
\* new TreeNode(): the next identity; its fields hold the defaults.
CanConstruct(h) == Nodes \ h.alloc # {}
FreshNode(h) == CHOOSE n \in Nodes \ h.alloc : \A m \in Nodes \ h.alloc : n <= m

Construct(h) ==
  LET n == FreshNode(h)
  IN [h EXCEPT !.alloc = @ \cup {n},
               !.children[n] = <<>>,
               !.up[n] = NULL,
               !.dist[n] = DEFAULT_DIST,
               !.support[n] = DEFAULT_SUPPORT,
               !.name[n] = DEFAULT_NAME]

\* Mutant of addChild: an argument replaces the field whenever it is
\* supplied, falsy or not.
addChildAnyGiven(h, self, child, nameArg, distArg, supportArg) ==
  LET h1 == IF Given(child) THEN h ELSE Construct(h)
      c == IF Given(child) THEN ValOf(child) ELSE FreshNode(h)
      h2 == [h1 EXCEPT !.up[c] = self,
                       !.name[c] = IF Given(nameArg) THEN ValOf(nameArg) ELSE @,
                       !.dist[c] = IF Given(distArg) THEN ValOf(distArg) ELSE @,
                       !.support[c] = IF Given(supportArg) THEN ValOf(supportArg) ELSE @]
      h3 == [h2 EXCEPT !.children[self] = Append(@, c)]
  IN Outcome(h3, c, NoError)

\* ------------------------------------------------------------ addChild
\* addChild(child?, name?, dist?, support?): child is {} or {node}.
addChild(h, self, child, nameArg, distArg, supportArg) ==
  LET h1 == IF Given(child) THEN h ELSE Construct(h)
      c == IF Given(child) THEN ValOf(child) ELSE FreshNode(h)
      h2 == [h1 EXCEPT !.up[c] = self,
                       !.name[c] = IF TruthyStr(nameArg) THEN ValOf(nameArg) ELSE @,
                       !.dist[c] = IF TruthyNum(distArg) THEN ValOf(distArg) ELSE @,
                       !.support[c] = IF TruthyNum(supportArg) THEN ValOf(supportArg) ELSE @]
      h3 == [h2 EXCEPT !.children[self] = Append(@, c)]
  IN Outcome(h3, c, NoError)

\* Mutant of removeChild: the slot is emptied, child.up is left as it was.
removeChildKeepsUp(h, self, child) ==
  LET childIndex == IndexOf(h.children[self], child)
  IN IF childIndex > 0
     THEN Outcome([h EXCEPT !.children[self][childIndex] = EMPTY], child, NoError)
     ELSE Outcome(h, NULL, ChildNotFound)

\* Mutant of removeChild: child.up is cleared before the index is looked at.
removeChildClearsFirst(h, self, child) ==
  LET childIndex == IndexOf(h.children[self], child)
      h1 == [h EXCEPT !.up[child] = NULL]
  IN IF childIndex > 0
     THEN Outcome([h1 EXCEPT !.children[self][childIndex] = EMPTY], child, NoError)
     ELSE Outcome(h1, NULL, ChildNotFound)

\* ------------------------------------------------------------ removeChild
\* `delete this.children[childIndex]` empties the slot: the array keeps its
\* length.
removeChild(h, self, child) ==
  LET childIndex == IndexOf(h.children[self], child)
  IN IF childIndex > 0
     THEN Outcome([h EXCEPT !.children[self][childIndex] = EMPTY,
                            !.up[child] = NULL], child, NoError)
     ELSE Outcome(h, NULL, ChildNotFound)

\* Mutant of addSister: the sister is added under the node itself.
addSisterUnderSelf(h, self, sister, nameArg, distArg) ==
  IF h.up[self] = NULL
  THEN Outcome(h, NULL, NoParentAddSister)
  ELSE addChild(h, self, sister, nameArg, distArg, {})

\* ------------------------------------------------------------ addSister
addSister(h, self, sister, nameArg, distArg) ==
  IF h.up[self] = NULL
  THEN Outcome(h, NULL, NoParentAddSister)
  ELSE addChild(h, h.up[self], sister, nameArg, distArg, {})

\* ------------------------------------------------------------ getSisters
\* lodash `filter` reads every index below length: an empty slot is read as
\* undefined, which is `!== this`, and stays in the result.
getSisters(h, self) ==
  IF h.up[self] # NULL
  THEN SelectSeq(h.children[h.up[self]], LAMBDA ch : ch # self)
  ELSE <<>>

\* ------------------------------------------------------------ remove_sister
\* Without a sister the first element of the copy is shifted out and
\* returned: the tree is not touched.  Returns undefined (NULL) when the
\* node has no sisters.
remove_sister(h, self, sister) ==
  IF h.up[self] = NULL
  THEN Outcome(h, NULL, NoParentRemoveSister)
  ELSE LET sisters == getSisters(h, self)
       IN IF Len(sisters) > 0
          THEN IF ~Given(sister)
               THEN Outcome(h, Head(sisters), NoError)
               ELSE removeChild(h, h.up[self], ValOf(sister))
          ELSE Outcome(h, NULL, NoError)

\* ------------------------------------------------------------ delete
\* Mutant of the forEach of delete: the children are not handed to the parent.
MoveNoChildren(h, parent, kids) == h

\* children.forEach(child => parent.addChild(child)): the slots that hold a
\* node, in order (pushes land behind the indices forEach visits).
RECURSIVE MoveChildren(_, _, _)
MoveChildren(h, parent, kids) ==
  IF kids = <<>> THEN h
  ELSE MoveChildren(addChild(h, parent, {Head(kids)}, {}, {}, {}).st, parent, Tail(kids))

\* The branch-length step of delete; err is TypeError when children[0] is an
\* empty slot (undefined.dist).
PreserveLength(h, self, parent) ==
  LET ch == h.children[self]
  IN IF Len(ch) = 1
     THEN IF ch[1] = EMPTY
          THEN Outcome(h, NULL, TypeError)
          ELSE Outcome([h EXCEPT !.dist[ch[1]] = @ + h.dist[self]], NULL, NoError)
     ELSE IF Len(ch) > 1
          THEN Outcome([h EXCEPT !.dist[parent] = @ + h.dist[self]], NULL, NoError)
          ELSE Outcome(h, NULL, NoError)

\* Mutant of delete: the branch-length step is not guarded by `if (parent)`,
\* and there is no recursion.
deleteUnguarded(h, self, prevent_nondicotomic, preserve_branch_length) ==
  LET parent == h.up[self]
      ch == h.children[self]
      p1 == IF ~preserve_branch_length THEN Outcome(h, NULL, NoError)
            ELSE IF parent # NULL THEN PreserveLength(h, self, parent)
            ELSE IF Len(ch) = 1 /\ ch[1] # EMPTY
                 THEN Outcome([h EXCEPT !.dist[ch[1]] = @ + h.dist[self]], NULL, NoError)
            ELSE IF Len(ch) >= 1 THEN Outcome(h, NULL, TypeError)
            ELSE Outcome(h, NULL, NoError)
  IN IF p1.err # NoError \/ parent = NULL THEN p1
     ELSE LET h2 == MoveChildren(p1.st, parent, Present(p1.st.children[self]))
              r3 == removeChild(h2, parent, self)
          IN Outcome(r3.st, NULL, r3.err)

RECURSIVE delete(_, _, _, _)
delete(h, self, prevent_nondicotomic, preserve_branch_length) ==
  LET parent == h.up[self]
  IN IF parent = NULL
     THEN Outcome(h, NULL, NoError)
     ELSE
       LET p1 == IF preserve_branch_length
                 THEN PreserveLength(h, self, parent)
                 ELSE Outcome(h, NULL, NoError)
       IN IF p1.err # NoError THEN p1
          ELSE
            LET h2 == MoveChildren(p1.st, parent, Present(p1.st.children[self]))
                r3 == removeChild(h2, parent, self)
            IN IF r3.err # NoError THEN Outcome(r3.st, NULL, r3.err)
               ELSE IF prevent_nondicotomic /\ Len(r3.st.children[parent]) < 2
                    THEN delete(r3.st, parent, prevent_nondicotomic, preserve_branch_length)
                    ELSE Outcome(r3.st, NULL, NoError)

\* Mutant of detach: up is cleared, the parent's children are not touched.
detachKeepsSlot(h, self) == Outcome([h EXCEPT !.up[self] = NULL], self, NoError)

\* ------------------------------------------------------------ detach
detach(h, self) ==
  IF h.up[self] # NULL
  THEN LET r == removeChild(h, h.up[self], self)
       IN IF r.err # NoError THEN Outcome(r.st, NULL, r.err)
          ELSE Outcome([r.st EXCEPT !.up[self] = NULL], self, NoError)
  ELSE Outcome([h EXCEPT !.up[self] = NULL], self, NoError)

\* ------------------------------------------------------------ add
\* value is {node}, or {} for a value that is no TreeNode.
add(h, self, value) ==
  IF Given(value)
  THEN LET newRoot == FreshNode(h)
           h1 == Construct(h)
           h2 == addChild(h1, newRoot, {self}, {}, {}, {}).st
           h3 == addChild(h2, newRoot, value, {}, {}, {}).st
       IN Outcome(h3, newRoot, NoError)
  ELSE Outcome(h, NULL, InvalidNodeType)

\* ------------------------------------------------------------ swapChildren
\* Mutant of swapChildren: two children are left as they are.
swapChildrenOverTwo(h, self) ==
  IF Len(h.children[self]) > 2
  THEN Outcome([h EXCEPT !.children[self] = Reverse(@)], NULL, NoError)
  ELSE Outcome(h, NULL, NoError)

swapChildren(h, self) ==
  IF Len(h.children[self]) > 1
  THEN Outcome([h EXCEPT !.children[self] = Reverse(@)], NULL, NoError)
  ELSE Outcome(h, NULL, NoError)


\* ------------------------------------------------------------ getCommonAncestor
EmptyTargets == "Error: getCommonAncestor called with an empty array"
NotConnected == "Error: Nodes are not connected!"
Diverges == "does not terminate"

\* `while (currentNode !== null) { ...; currentNode = currentNode.up }`: the
\* nodes from n root-ward.  The walk ends iff it meets null within as many
\* steps as there are nodes.
RECURSIVE UpWalk(_, _, _)
UpWalk(h, n, fuel) ==
  IF n = NULL \/ fuel = 0 THEN <<>>
  ELSE <<n>> \o UpWalk(h, h.up[n], fuel - 1)

WalkEnds(h, n) == Len(UpWalk(h, n, NumNodes + 1)) <= NumNodes
PathTo(h, n) == UpWalk(h, n, NumNodes + 1)

\* nodeToPath is keyed by the target's name: a later target of the same name
\* replaces the path set of an earlier one.
NodeToPath(h, targetNodes) ==
  [nm \in {h.name[targetNodes[i]] : i \in 1..Len(targetNodes)} |->
     LET i == CHOOSE j \in 1..Len(targetNodes) :
                /\ h.name[targetNodes[j]] = nm
                /\ \A k \in (j + 1)..Len(targetNodes) : h.name[targetNodes[k]] # nm
     IN Range(PathTo(h, targetNodes[i]))]

\* The first node of the reference path that every path set holds; NULL when
\* there is none.
FirstShared(reference, allPaths) ==
  LET hits == {i \in 1..Len(reference) : \A path \in allPaths : reference[i] \in path}
  IN IF hits = {} THEN NULL
     ELSE reference[CHOOSE i \in hits : \A j \in hits : i <= j]

\* Mutant of getCommonAncestor: a single target takes the general path.
getCommonAncestorNoTrivialCase(h, targetNodes, getPath) ==
  IF Len(targetNodes) = 0 THEN Outcome(h, NULL, EmptyTargets)
  ELSE IF \E i \in 1..Len(targetNodes) : ~WalkEnds(h, targetNodes[i])
  THEN Outcome(h, NULL, Diverges)
  ELSE
    LET nodeToPath == NodeToPath(h, targetNodes)
        reference == PathTo(h, targetNodes[1])
        allPaths == {nodeToPath[nm] : nm \in DOMAIN nodeToPath}
        commonNode == FirstShared(reference, allPaths)
    IN IF commonNode = NULL THEN Outcome(h, NULL, NotConnected)
       ELSE Outcome(h, IF getPath THEN [common |-> commonNode, paths |-> nodeToPath]
                       ELSE commonNode, NoError)

getCommonAncestor(h, targetNodes, getPath) ==
  IF Len(targetNodes) = 0 THEN Outcome(h, NULL, EmptyTargets)
  ELSE IF Len(targetNodes) = 1
  THEN Outcome(h, IF getPath THEN [common |-> targetNodes[1], paths |-> <<>>]
                  ELSE targetNodes[1], NoError)
  ELSE IF \E i \in 1..Len(targetNodes) : ~WalkEnds(h, targetNodes[i])
  THEN Outcome(h, NULL, Diverges)
  ELSE
    LET nodeToPath == NodeToPath(h, targetNodes)
        reference == PathTo(h, targetNodes[1])
        allPaths == {nodeToPath[nm] : nm \in DOMAIN nodeToPath}
        commonNode == FirstShared(reference, allPaths)
    IN IF commonNode = NULL THEN Outcome(h, NULL, NotConnected)
       ELSE Outcome(h, IF getPath THEN [common |-> commonNode, paths |-> nodeToPath]
                       ELSE commonNode, NoError)


\* ------------------------------------------------------------ traverse
\* traverse("levelorder"): breadth first from the start node, siblings in
\* stored order.  The walk does not end on a graph with a cycle.
RECURSIVE LevelWalk(_, _, _)
LevelWalk(h, queue, fuel) ==
  IF queue = <<>> \/ fuel = 0 THEN <<>>
  ELSE <<Head(queue)>> \o
       LevelWalk(h, Tail(queue) \o Present(h.children[Head(queue)]), fuel - 1)

traverse(h, self) == LevelWalk(h, <<self>>, NumNodes + 1)
TraverseEnds(h, self) == Len(traverse(h, self)) <= NumNodes

\* ------------------------------------------------------------ traversal strategies
\* The value handed over as isLeafFn: undefined, a function (the set of
\* nodes it answers true for), or an object that is no function.
NoFn == [kind |-> "undefined", leaves |-> {}]
Fn(L) == [kind |-> "function", leaves |-> L]
Wrapped(f) == [kind |-> "object", leaves |-> f.leaves]

\* The leaf test of a traversal: isLeafFn when it is supplied, else
\* "children is empty".
IsLeafBy(h, n, isLeafFn) ==
  IF isLeafFn.kind = "function" THEN n \in isLeafFn.leaves
  ELSE Present(h.children[n]) = <<>>

\* preorder: a node, then its children depth first in stored order; the
\* children of a leaf are not visited.
RECURSIVE PreWalk(_, _, _, _)
PreWalk(h, stack, isLeafFn, fuel) ==
  IF stack = <<>> \/ fuel = 0 THEN <<>>
  ELSE LET n == Head(stack)
           below == IF IsLeafBy(h, n, isLeafFn) THEN <<>> ELSE Present(h.children[n])
       IN <<n>> \o PreWalk(h, below \o Tail(stack), isLeafFn, fuel - 1)

\* levelorder: breadth first, siblings in stored order.
RECURSIVE LevelWalkBy(_, _, _, _)
LevelWalkBy(h, queue, isLeafFn, fuel) ==
  IF queue = <<>> \/ fuel = 0 THEN <<>>
  ELSE LET n == Head(queue)
           below == IF IsLeafBy(h, n, isLeafFn) THEN <<>> ELSE Present(h.children[n])
       IN <<n>> \o LevelWalkBy(h, Tail(queue) \o below, isLeafFn, fuel - 1)

\* postorder: the descendants of a node, child by child, then the node.
RECURSIVE PostWalk(_, _, _, _)
RECURSIVE PostList(_, _, _, _)
PostWalk(h, n, isLeafFn, fuel) ==
  IF fuel = 0 THEN <<>>
  ELSE IF IsLeafBy(h, n, isLeafFn) THEN <<n>>
  ELSE PostList(h, Present(h.children[n]), isLeafFn, fuel - 1) \o <<n>>

PostList(h, kids, isLeafFn, fuel) ==
  IF kids = <<>> THEN <<>>
  ELSE PostWalk(h, Head(kids), isLeafFn, fuel) \o PostList(h, Tail(kids), isLeafFn, fuel)

iterDescendantsPreorder(h, self, isLeafFn) == PreWalk(h, <<self>>, isLeafFn, NumNodes + 1)
iterDescendantsLevelorder(h, self, isLeafFn) == LevelWalkBy(h, <<self>>, isLeafFn, NumNodes + 1)
iterDescendantsPostorder(h, self, isLeafFn) ==
  IF Len(iterDescendantsPreorder(h, self, isLeafFn)) <= NumNodes
  THEN PostWalk(h, self, isLeafFn, NumNodes + 1)
  ELSE iterDescendantsPreorder(h, self, isLeafFn)

\* Mutant of traverse: the postorder branch is missing, nothing is produced.
traverseNoPostorder(h, self, strategy, isLeafFn) ==
  LET st == IF Given(strategy) THEN ValOf(strategy) ELSE "levelorder"
      seq == IF st = "preorder" THEN iterDescendantsPreorder(h, self, isLeafFn)
             ELSE IF st = "levelorder" THEN iterDescendantsLevelorder(h, self, isLeafFn)
             ELSE <<>>
  IN IF Len(seq) > NumNodes THEN Outcome(h, <<>>, Diverges) ELSE Outcome(h, seq, NoError)

\* Mutant of traverse: the branches of preorder and postorder are exchanged.
traverseSwapped(h, self, strategy, isLeafFn) ==
  LET st == IF Given(strategy) THEN ValOf(strategy) ELSE "levelorder"
      seq == IF st = "preorder" THEN iterDescendantsPostorder(h, self, isLeafFn)
             ELSE IF st = "levelorder" THEN iterDescendantsLevelorder(h, self, isLeafFn)
             ELSE IF st = "postorder" THEN iterDescendantsPreorder(h, self, isLeafFn)
             ELSE <<>>
  IN IF Len(seq) > NumNodes THEN Outcome(h, <<>>, Diverges) ELSE Outcome(h, seq, NoError)

\* traverse(strategy = "levelorder", isLeafFn): strategy is {} or {name}.
\* The sequence is built anew by every call; a walk that does not end has
\* no sequence.
traverseBy(h, self, strategy, isLeafFn) ==
  LET st == IF Given(strategy) THEN ValOf(strategy) ELSE "levelorder"
      seq == IF st = "preorder" THEN iterDescendantsPreorder(h, self, isLeafFn)
             ELSE IF st = "levelorder" THEN iterDescendantsLevelorder(h, self, isLeafFn)
             ELSE IF st = "postorder" THEN iterDescendantsPostorder(h, self, isLeafFn)
             ELSE <<>>
  IN IF Len(seq) > NumNodes THEN Outcome(h, <<>>, Diverges) ELSE Outcome(h, seq, NoError)

\* ------------------------------------------------------------ getDescendants
\* iterDescendants: the traversal without the start node.
getDescendants(h, self, strategy, isLeafFn) ==
  LET t == traverseBy(h, self, strategy, isLeafFn)
  IN Outcome(h, SelectSeq(t.ret, LAMBDA n : n # self), t.err)

\* ------------------------------------------------------------ getLeaves
\* iterLeaves: the preorder traversal, filtered by isLeafFn when the argument
\* is truthy, else by isLeaf.  Calling an argument that is no function
\* throws at the first node produced.
iterLeaves(h, self, isLeafFn) ==
  LET t == traverseBy(h, self, {"preorder"}, isLeafFn)
  IN IF t.err # NoError THEN t
     ELSE IF isLeafFn.kind = "undefined"
     THEN Outcome(h, SelectSeq(t.ret, LAMBDA n : Present(h.children[n]) = <<>>), NoError)
     ELSE IF isLeafFn.kind = "function"
     THEN Outcome(h, SelectSeq(t.ret, LAMBDA n : n \in isLeafFn.leaves), NoError)
     ELSE Outcome(h, <<>>, TypeError)

\* getLeaves hands iterLeaves the object `{ isLeafFn }`.
getLeaves(h, self, isLeafFn) == iterLeaves(h, self, Wrapped(isLeafFn))

\* ------------------------------------------------------------ contains
\* item is a node (among getDescendants(), which leaves the receiver out) or
\* a name (among the names of traverse(), which holds the receiver).
contains(h, self, item) ==
  IF item.kind = "node"
  THEN LET d == getDescendants(h, self, {}, NoFn)
       IN Outcome(h, d.err = NoError /\ item.v \in Range(d.ret), d.err)
  ELSE IF item.kind = "name"
  THEN LET t == traverseBy(h, self, {}, NoFn)
       IN Outcome(h, t.err = NoError /\ item.v \in {h.name[t.ret[i]] : i \in 1..Len(t.ret)},
                  t.err)
  ELSE Outcome(h, FALSE, NoError)

\* ------------------------------------------------------------ Newick text
\* A text is the sequence of its lexemes: "(", ")", ",", ":", ";", a name,
\* a number or a run of white space.  The empty string is <<>>.
DEFAULT_COMPACT == FALSE
DEFAULT_SHOWINTERNAL == FALSE
ParseError == "NewickError"

NameToks == {"A", "B", "C"}
NumTokens == <<"0", "1", "2", "3", "4">>
NumToks == Range(NumTokens)
NumOf(tok) == (CHOOSE i \in 1..Len(NumTokens) : NumTokens[i] = tok) - 1
NumToken(n) == IF n + 1 \in 1..Len(NumTokens) THEN NumTokens[n + 1] ELSE "?"
Tok(t, i) == IF i \in 1..Len(t) THEN t[i] ELSE "<end>"
Blank(t) == \A i \in 1..Len(t) : t[i] = " "

\* The documented formats: what a leaf and an internal node carry.  A field
\* is "flexible" (read when present), "strict" (required) or "none" (left at
\* its default); the label of an internal node is a name or a support value.
FormatCodes == {0, 1, 2, 3, 4, 5, 6, 7, 8, 9, 100}
Fields(ln, ld, ik, il, id) ==
  [leafName |-> ln, leafDist |-> ld, innerKind |-> ik, innerLabel |-> il, innerDist |-> id]
Policy(f) ==
  CASE f = 0 -> Fields("flexible", "flexible", "support", "flexible", "flexible")
    [] f = 1 -> Fields("flexible", "flexible", "name", "flexible", "flexible")
    [] f = 2 -> Fields("strict", "strict", "support", "strict", "strict")
    [] f = 3 -> Fields("strict", "strict", "name", "strict", "strict")
    [] f = 4 -> Fields("strict", "strict", "name", "none", "none")
    [] f = 5 -> Fields("strict", "strict", "name", "none", "strict")
    [] f = 6 -> Fields("strict", "none", "name", "none", "strict")
    [] f = 7 -> Fields("strict", "strict", "name", "strict", "none")
    [] f = 8 -> Fields("strict", "none", "name", "strict", "none")
    [] f = 9 -> Fields("strict", "none", "name", "none", "none")
    [] OTHER -> Fields("none", "none", "name", "none", "none")

\* The label and the branch length that follow a node at position i.  With
\* format 0 the label of an internal node is its support when it is a number
\* and its name otherwise.
ReadFields(h, t, i, self, inner, f) ==
  LET p == Policy(f)
      labelPol == IF inner THEN p.innerLabel ELSE p.leafName
      distPol == IF inner THEN p.innerDist ELSE p.leafDist
      hasLabel == Tok(t, i) \in NameToks \cup NumToks
      label == Tok(t, i)
      j == IF hasLabel THEN i + 1 ELSE i
      hasDist == Tok(t, j) = ":"
      k == IF hasDist THEN j + 2 ELSE j
      asSupport == inner /\ p.innerKind = "support" /\ (f = 0 => label \in NumToks)
      bad == \/ hasDist /\ Tok(t, j + 1) \notin NumToks
             \/ labelPol = "strict" /\ ~hasLabel
             \/ distPol = "strict" /\ ~hasDist
             \/ hasLabel /\ labelPol # "none" /\ asSupport /\ label \notin NumToks
      h1 == IF hasLabel /\ labelPol # "none"
            THEN IF asSupport THEN [h EXCEPT !.support[self] = NumOf(label)]
                 ELSE [h EXCEPT !.name[self] = label]
            ELSE h
      h2 == IF hasDist /\ distPol # "none"
            THEN [h1 EXCEPT !.dist[self] = NumOf(Tok(t, j + 1))]
            ELSE h1
  IN IF bad THEN [st |-> h, pos |-> i, ok |-> FALSE]
     ELSE [st |-> h2, pos |-> k, ok |-> TRUE]

\* "(" child "," child ... ")" label ":" length, or label ":" length.  Every
\* child is a new node added below `self` with addChild; r is what the text
\* read so far gave: the heap, the position reached, and whether it was well
\* formed.
RECURSIVE ParseNode(_, _, _, _, _), ParseKids(_, _, _, _, _)
RECURSIVE AfterChild(_, _, _, _), AfterKids(_, _, _, _)
AfterChild(t, self, f, r) ==
  IF ~r.ok THEN r
  ELSE IF Tok(t, r.pos) = "," THEN ParseKids(r.st, t, r.pos + 1, self, f)
  ELSE IF Tok(t, r.pos) = ")" THEN [r EXCEPT !.pos = @ + 1]
  ELSE [r EXCEPT !.ok = FALSE]

ParseKids(h, t, i, self, f) ==
  IF ~CanConstruct(h) THEN [st |-> h, pos |-> i, ok |-> FALSE]
  ELSE AfterChild(t, self, f,
                  ParseNode(addChild(h, self, {}, {}, {}, {}).st, t, i, FreshNode(h), f))

AfterKids(t, self, f, r) ==
  IF r.ok THEN ReadFields(r.st, t, r.pos, self, TRUE, f) ELSE r

ParseNode(h, t, i, self, f) ==
  IF Tok(t, i) = "("
  THEN AfterKids(t, self, f, ParseKids(h, t, i + 1, self, f))
  ELSE ReadFields(h, t, i, self, FALSE, f)

\* readNewick(newick, root, format): fills `self` from the text, or throws.
Parsed(h, newick, self, r) ==
  IF r.ok /\ r.pos = Len(newick) /\ Tok(newick, r.pos) = ";"
  THEN Outcome(r.st, self, NoError)
  ELSE Outcome(h, NULL, ParseError)

readNewick(h, newick, self, f) ==
  IF Blank(newick) THEN Outcome(h, NULL, ParseError)
  ELSE Parsed(h, newick, self, ParseNode(h, newick, 1, self, f))

\* new TreeNode(newick, format): newick is {} or {text}.  `if (newick)`: the
\* empty string is falsy like a missing argument.  A constructor that throws
\* hands no object to its caller: the heap is the one before the call.
Constructed(h, r) == IF r.err = NoError THEN r ELSE Outcome(h, NULL, r.err)

constructor(h, newick, format) ==
  IF Given(newick) /\ ValOf(newick) # <<>>
  THEN Constructed(h, readNewick(Construct(h), ValOf(newick), FreshNode(h), format))
  ELSE Outcome(Construct(h), FreshNode(h), NoError)

\* The Newick text of the tree below n: the children in stored order between
\* parentheses, the name (of an internal node only when shown), the length.
RECURSIVE Write(_, _, _, _), WriteKids(_, _, _, _)
WriteKids(h, kids, show, lengths) ==
  IF kids = <<>> THEN <<>>
  ELSE Write(h, Head(kids), show, lengths)
       \o (IF Tail(kids) = <<>> THEN <<>> ELSE <<",">> \o WriteKids(h, Tail(kids), show, lengths))

Write(h, n, show, lengths) ==
  LET kids == Present(h.children[n])
      inner == kids # <<>>
  IN (IF inner THEN <<"(">> \o WriteKids(h, kids, show, lengths) \o <<")">> ELSE <<>>)
     \o (IF (inner /\ ~show) \/ h.name[n] = "" THEN <<>> ELSE <<h.name[n]>>)
     \o (IF lengths THEN <<":", NumToken(h.dist[n])>> ELSE <<>>)

\* The tree carries lengths when some node below self is not at the default.
RECURSIVE Below(_, _)
Below(h, n) ==
  {n} \cup UNION {Below(h, Present(h.children[n])[i]) : i \in 1..Len(Present(h.children[n]))}

getAscii(h, self, compact, show_internal) ==
  Write(h, self, show_internal, \E n \in Below(h, self) : h.dist[n] # DEFAULT_DIST) \o <<";">>

\* toString(compact?, show_internal?): each is {} or {boolean}.
toString(h, self, compact, show_internal) ==
  Outcome(h, getAscii(h, self,
                      IF Given(compact) THEN ValOf(compact) ELSE DEFAULT_COMPACT,
                      IF Given(show_internal) THEN ValOf(show_internal)
                      ELSE DEFAULT_SHOWINTERNAL),
          NoError)

\* ------------------------------------------------------------ _translateNodes
AmbiguousName == "TreeError: Ambiguous node name"
NamesNotFound == "TreeError: Node name(s) not found"
InvalidItem == "TreeError: Invalid node type"

\* An item of the mixed list: a node reference, a name string, or a value
\* that is neither.
NodeItem(n) == [kind |-> "node", v |-> n]
NameItem(s) == [kind |-> "name", v |-> s]
OtherItem == [kind |-> "other", v |-> 0]

IndexString(i) ==
  CASE i = 0 -> "0" [] i = 1 -> "1" [] i = 2 -> "2" [] i = 3 -> "3" [] i = 4 -> "4"
    [] OTHER -> "5"

\* `n.name in Object.keys(name2node)`: the `in` operator asks whether the
\* array has that property: an index below its length, or "length".
InKeys(nm, nkeys) == nm = "length" \/ \E i \in 0..(nkeys - 1) : nm = IndexString(i)

\* The walk over root.traverse(): name2node after the nodes seen so far, or
\* the ambiguity error.  A matched name that is no key reads as undefined,
\* which is `!== null`.
RECURSIVE FillNames(_, _, _, _)
FillNames(h, seen, keys, name2node) ==
  IF seen = <<>> THEN [map |-> name2node, err |-> NoError]
  ELSE LET n == Head(seen)
           nm == h.name[n]
       IN IF InKeys(nm, Cardinality(keys))
          THEN IF nm \notin keys \/ name2node[nm] # NULL
               THEN [map |-> name2node, err |-> AmbiguousName]
               ELSE FillNames(h, Tail(seen), keys, [name2node EXCEPT ![nm] = n])
          ELSE FillNames(h, Tail(seen), keys, name2node)

\* The value returned is `validNodes += Object.values(name2node)`: an array
\* plus an array is the concatenation of their string forms, a string.  The
\* not-found error carries `missing`, the keys still null.
translateNodes(h, root, nodes) ==
  LET keys == {nodes[i].v : i \in {j \in 1..Len(nodes) : nodes[j].kind = "name"}}
      empty == [k \in keys |-> NULL]
      filled == IF keys # {}
                THEN IF TraverseEnds(h, root)
                     THEN FillNames(h, traverse(h, root), keys, empty)
                     ELSE [map |-> empty, err |-> Diverges]
                ELSE [map |-> empty, err |-> NoError]
      validNodes == SelectSeq(nodes, LAMBDA it : it.kind = "node")
  IN IF filled.err # NoError THEN Outcome(h, NULL, filled.err)
     ELSE IF \E k \in keys : filled.map[k] = NULL
          THEN Outcome(h, {k \in keys : filled.map[k] = NULL}, NamesNotFound)
     ELSE IF \E i \in 1..Len(nodes) : nodes[i].kind = "other"
          THEN Outcome(h, NULL, InvalidItem)
     ELSE Outcome(h, [isArray |-> FALSE,
                      chars |-> Len(validNodes) + Cardinality(keys)], NoError)

\* ------------------------------------------------------------ prune
\* toKeep is what _translateNodes returned.  getCommonAncestor(toKeep, true)
\* reads toKeep.length and calls toKeep.forEach: on a string of no characters
\* it throws the empty-array error, on any other string forEach is no
\* function.  No statement before that point changes the tree, and none
\* after it is reached.
prune(h, self, nodes, preserve_branch_length) ==
  LET toKeep == translateNodes(h, self, nodes)
  IN IF toKeep.err # NoError THEN Outcome(h, NULL, toKeep.err)
     ELSE IF toKeep.ret.chars = 0 THEN Outcome(h, NULL, EmptyTargets)
     ELSE Outcome(h, NULL, TypeError)


\* ------------------------------------------------------------ initial states
\* The forests that constructor and addChild calls build from fresh nodes:
\* k nodes, each attached under a node constructed before it, the children
\* of a node in any order.  Names are the default or pairwise distinct.
NodeNames == <<"A", "B", "C", "D", "E", "F", "G", "H">>

ParentMaps(k) == {u \in [1..k -> 0..k] : \A n \in 1..k : u[n] < n}
Orders(k) == {f \in [1..k -> 1..k] : \A a, b \in 1..k : a # b => f[a] # f[b]}

RECURSIVE SortBy(_, _)
SortBy(S, ord) ==
  IF S = {} THEN <<>>
  ELSE LET m == CHOOSE x \in S : \A y \in S : ord[x] <= ord[y]
       IN <<m>> \o SortBy(S \ {m}, ord)

ForestHeap(k, u, ord, named) ==
  [up |-> [n \in Nodes |-> IF n <= k THEN u[n] ELSE NULL],
   children |-> [p \in Nodes |-> IF p <= k THEN SortBy({n \in 1..k : u[n] = p}, ord)
                                 ELSE <<>>],
   name |-> [n \in Nodes |-> IF named /\ n <= k THEN NodeNames[n] ELSE DEFAULT_NAME],
   dist |-> [n \in Nodes |-> DEFAULT_DIST],
   support |-> [n \in Nodes |-> DEFAULT_SUPPORT],
   alloc |-> 1..k]

NoCall == [op |-> "none", self |-> NULL, args |-> <<>>, ret |-> NULL, err |-> NoError]

InitFrom(h) ==
  /\ up = h.up /\ children = h.children /\ name = h.name /\ dist = h.dist
  /\ support = h.support /\ alloc = h.alloc
  /\ pre = h
  /\ last = NoCall
  /\ budget = MaxOps

InitUpTo(maxK) ==
  \E k \in 0..maxK : \E u \in ParentMaps(k) : \E ord \in Orders(k) :
    \E named \in BOOLEAN : InitFrom(ForestHeap(k, u, ord, named))

Init == InitUpTo(MaxInitNodes)

\* ------------------------------------------------------------ actions
\* One call of a public operation: the heap becomes the operation's heap, the
\* call and its outcome are kept in `last`, the heap before it in `pre`.
Call(opName, self, args, r) ==
  /\ budget > 0
  /\ up' = r.st.up /\ children' = r.st.children /\ name' = r.st.name
  /\ dist' = r.st.dist /\ support' = r.st.support /\ alloc' = r.st.alloc
  /\ last' = [op |-> opName, self |-> self, args |-> args, ret |-> r.ret, err |-> r.err]
  /\ pre' = Heap
  /\ budget' = budget - 1

OptNode == {{}} \cup {{n} : n \in alloc}
AttrArgs == {<<{}, {}, {}>>, <<{""}, {0}, {0}>>, <<{"X"}, {}, {}>>, <<{}, {2}, {}>>,
             <<{"X"}, {2}, {2}>>}

New ==
  /\ CanConstruct(Heap)
  /\ Call("new", FreshNode(Heap), <<>>, Outcome(Construct(Heap), FreshNode(Heap), NoError))

AddChild ==
  \E self \in alloc, child \in OptNode, a \in AttrArgs :
    /\ Given(child) \/ CanConstruct(Heap)
    /\ Call("addChild", self,
            [child |-> child, name |-> a[1], dist |-> a[2], support |-> a[3]],
            addChild(Heap, self, child, a[1], a[2], a[3]))

RemoveChild ==
  \E self \in alloc, child \in alloc :
    Call("removeChild", self, [child |-> child], removeChild(Heap, self, child))

AddSister ==
  \E self \in alloc, sister \in OptNode, a \in {b \in AttrArgs : b[3] = {}} :
    /\ Given(sister) \/ CanConstruct(Heap)
    /\ Call("addSister", self, [child |-> sister, name |-> a[1], dist |-> a[2]],
            addSister(Heap, self, sister, a[1], a[2]))

RemoveSister ==
  \E self \in alloc, sister \in OptNode :
    Call("remove_sister", self, [sister |-> sister], remove_sister(Heap, self, sister))

Delete ==
  \E self \in alloc, pn \in BOOLEAN, pb \in BOOLEAN :
    Call("delete", self, [prevent |-> pn, preserve |-> pb], delete(Heap, self, pn, pb))

Detach ==
  \E self \in alloc : Call("detach", self, <<>>, detach(Heap, self))

Add ==
  \E self \in alloc, value \in OptNode :
    /\ CanConstruct(Heap)
    /\ Call("add", self, [value |-> value], add(Heap, self, value))

SwapChildren ==
  \E self \in alloc : Call("swapChildren", self, <<>>, swapChildren(Heap, self))

TargetLists == UNION {[1..m -> alloc] : m \in 0..MaxTargets}

GetCommonAncestor ==
  \E targetNodes \in TargetLists, getPath \in BOOLEAN :
    Call("getCommonAncestor", NULL, [targets |-> targetNodes, getPath |-> getPath],
         getCommonAncestor(Heap, targetNodes, getPath))

\* The targets of prune: node references, or the names the nodes bear.
Prune ==
  \E self \in alloc, targetNodes \in TargetLists, byName \in BOOLEAN, pb \in BOOLEAN :
    LET nodes == [i \in 1..Len(targetNodes) |->
                    IF byName THEN NameItem(name[targetNodes[i]])
                    ELSE NodeItem(targetNodes[i])]
    IN Call("prune", self, [targets |-> targetNodes, byName |-> byName, preserve |-> pb],
            prune(Heap, self, nodes, pb))

Next ==
  \/ New
  \/ AddChild
  \/ RemoveChild
  \/ AddSister
  \/ RemoveSister
  \/ Delete
  \/ Detach
  \/ Add
  \/ SwapChildren
  \/ GetCommonAncestor
  \/ Prune

Spec == Init /\ [][Next]_vars


\* ------------------------------------------------------------ other specifications
\* The same operations, one at a time, from the same forests.
NextRemoveChild == RemoveChild
SpecRemoveChild == Init /\ [][NextRemoveChild]_vars

\* addChild has the most argument combinations: its forests are one node
\* smaller.
InitAddChild == InitUpTo(MaxInitNodes - 1)
NextAddChild == AddChild
SpecAddChild == InitAddChild /\ [][NextAddChild]_vars

\* Cut and paste: a detach, and an addChild of the detached node that
\* follows it.
Paste ==
  \E q \in alloc :
    /\ last.op = "detach" /\ last.err = NoError
    /\ LET r == addChild(Heap, q, {last.ret}, {}, {}, {})
       IN /\ up' = r.st.up /\ children' = r.st.children /\ name' = r.st.name
          /\ dist' = r.st.dist /\ support' = r.st.support /\ alloc' = r.st.alloc
          /\ last' = [op |-> "paste", self |-> q, args |-> [child |-> {last.ret}],
                      ret |-> r.ret, err |-> r.err]
          /\ pre' = Heap
          /\ UNCHANGED budget

NextDetach == Detach \/ Paste
SpecDetach == Init /\ [][NextDetach]_vars

\* delete, also from larger forests in which every internal node below the
\* root has two or more children.
Kids(h, p) == Present(h.children[p])
Bifurcating(h) == \A n \in h.alloc : h.up[n] # NULL => Len(Kids(h, n)) # 1

Identity(k) == [i \in 1..k |-> i]
Reversed(k) == [i \in 1..k |-> k + 1 - i]

InitBifurcating ==
  \E k \in (MaxInitNodes + 1)..NumNodes : \E u \in ParentMaps(k) :
    \E ord \in {Identity(k), Reversed(k)} :
      /\ Bifurcating(ForestHeap(k, u, ord, FALSE))
      /\ InitFrom(ForestHeap(k, u, ord, FALSE))

NextDelete == Delete
SpecDelete == (Init \/ InitBifurcating) /\ [][NextDelete]_vars

\* _translateNodes, called on its own: the nodes bear names that may repeat
\* and may read as an array index; the items are node references, names (of
\* which "Z" is borne by no node) and a value that is neither.
GivenNames == {"A", "B", "0"}
ItemNames == GivenNames \cup {"Z"}

InitTranslate ==
  \E k \in 1..(MaxInitNodes - 1) : \E u \in ParentMaps(k) : \E nm \in [1..k -> GivenNames] :
    InitFrom([ForestHeap(k, u, Identity(k), FALSE) EXCEPT
                !.name = [n \in Nodes |-> IF n <= k THEN nm[n] ELSE DEFAULT_NAME]])

\* What an item is chosen from: its kind, and the node or the name.
ItemChoices ==
  {<<"node", n, "">> : n \in alloc} \cup {<<"name", NULL, s>> : s \in ItemNames}
    \cup {<<"other", NULL, "">>}
ItemOf(c) ==
  CASE c[1] = "node" -> NodeItem(c[2])
    [] c[1] = "name" -> NameItem(c[3])
    [] OTHER -> OtherItem
ItemLists == UNION {[1..m -> ItemChoices] : m \in 0..(MaxTargets - 1)}

TranslateNodes ==
  \E root \in alloc, choices \in ItemLists :
    LET nodes == [i \in 1..Len(choices) |-> ItemOf(choices[i])]
    IN Call("_translateNodes", root, [nodes |-> nodes], translateNodes(Heap, root, nodes))

NextTranslate == TranslateNodes
SpecTranslate == InitTranslate /\ [][NextTranslate]_vars

\* getCommonAncestor on short target lists: the order of the children plays
\* no part in it.
InitPaths ==
  \E k \in 0..(MaxInitNodes - 1) : \E u \in ParentMaps(k) : \E named \in BOOLEAN :
    InitFrom(ForestHeap(k, u, Identity(k), named))

FewTargets == UNION {[1..m -> alloc] : m \in 0..(MaxTargets - 1)}

CommonAncestorOfFew ==
  \E targetNodes \in FewTargets, getPath \in BOOLEAN :
    Call("getCommonAncestor", NULL, [targets |-> targetNodes, getPath |-> getPath],
         getCommonAncestor(Heap, targetNodes, getPath))

NextCommonAncestor == CommonAncestorOfFew
SpecCommonAncestor == InitPaths /\ [][NextCommonAncestor]_vars

\* delete on a tree from which a child was removed before: a successful
\* removeChild that precedes the counted call.
InitPlain ==
  \E k \in 0..MaxInitNodes : \E u \in ParentMaps(k) :
    InitFrom(ForestHeap(k, u, Identity(k), FALSE))

RemoveChildBefore ==
  \E self \in alloc, child \in alloc :
    /\ last.op = "none"
    /\ LET r == removeChild(Heap, self, child)
       IN /\ r.err = NoError
          /\ up' = r.st.up /\ children' = r.st.children /\ name' = r.st.name
          /\ dist' = r.st.dist /\ support' = r.st.support /\ alloc' = r.st.alloc
          /\ last' = [op |-> "removeChild", self |-> self, args |-> [child |-> child],
                      ret |-> r.ret, err |-> r.err]
          /\ pre' = Heap
          /\ UNCHANGED budget

NextDeleteAfterRemove == RemoveChildBefore \/ Delete
SpecDeleteAfterRemove == InitPlain /\ [][NextDeleteAfterRemove]_vars

\* The sister operations.
NextSister == AddSister \/ RemoveSister
SpecSister == InitPaths /\ [][NextSister]_vars

\* The traversals: single trees (a traversal sees the tree below its start
\* node only); the stored order of the children matters, the names do not.
InitOrdered ==
  \E k \in 1..MaxInitNodes : \E u \in ParentMaps(k) : \E ord \in {Identity(k), Reversed(k)} :
    /\ \A n \in 2..k : u[n] # NULL
    /\ InitFrom(ForestHeap(k, u, ord, FALSE))

Strategies == {{}, {"preorder"}, {"levelorder"}, {"postorder"}}
FewLeafFns == {NoFn, Fn({})} \cup {Fn({n}) : n \in alloc}
LeafFns == {NoFn} \cup {Fn(L) : L \in SUBSET alloc}

Traverse ==
  \E self \in alloc, strategy \in Strategies, isLeafFn \in FewLeafFns :
    Call("traverse", self, [strategy |-> strategy, isLeafFn |-> isLeafFn],
         traverseBy(Heap, self, strategy, isLeafFn))

\* The same call once more: `first` keeps what the call before produced.
TraverseAgain ==
  /\ last.op = "traverse"
  /\ LET r == traverseBy(Heap, last.self, last.args.strategy, last.args.isLeafFn)
     IN /\ last' = [op |-> "traverseAgain", self |-> last.self,
                    args |-> [strategy |-> last.args.strategy,
                              isLeafFn |-> last.args.isLeafFn, first |-> last.ret],
                    ret |-> r.ret, err |-> r.err]
        /\ up' = r.st.up /\ children' = r.st.children /\ name' = r.st.name
        /\ dist' = r.st.dist /\ support' = r.st.support /\ alloc' = r.st.alloc
        /\ pre' = Heap
        /\ UNCHANGED budget

NextTraverse == Traverse \/ TraverseAgain
SpecTraverse == InitOrdered /\ [][NextTraverse]_vars

\* The accessors built on traverse.
TraverseCollapsed ==
  \E self \in alloc, strategy \in Strategies, isLeafFn \in LeafFns :
    Call("traverse", self, [strategy |-> strategy, isLeafFn |-> isLeafFn],
         traverseBy(Heap, self, strategy, isLeafFn))

GetDescendants ==
  \E self \in alloc, strategy \in Strategies, isLeafFn \in LeafFns :
    Call("getDescendants", self, [strategy |-> strategy, isLeafFn |-> isLeafFn],
         getDescendants(Heap, self, strategy, isLeafFn))

GetLeaves ==
  \E self \in alloc, isLeafFn \in LeafFns :
    Call("getLeaves", self, [isLeafFn |-> isLeafFn], getLeaves(Heap, self, isLeafFn))

NextLeaves == TraverseCollapsed \/ GetDescendants \/ GetLeaves
SpecLeaves == InitOrdered /\ [][NextLeaves]_vars

\* The codec: a tree is built from a text, written out, and built again
\* from what was written, with the format of the first construction.
GivenTexts ==
  { <<>>, <<" ">>, <<" ", " ">>,
    <<"A", ";">>,
    <<"(", "A", ",", "B", ")", ";">>,
    <<"(", "A", ",", "B", ")", "C", ";">>,
    <<"(", "A", ",", "B", ")", "2", ";">>,
    <<"(", "A", ":", "2", ",", "B", ":", "2", ")", ";">>,
    <<"(", "A", ":", "2", ",", "B", ":", "2", ")", "C", ":", "2", ";">>,
    <<"(", "(", "A", ")", "B", ")", "C", ";">>,
    <<"(", "(", "A", ":", "2", ")", "B", ":", "0", ")", "C", ":", "2", ";">>,
    <<"(", "A", ",", "B">>,
    <<"(", "A", ",", "B", ")">>,
    <<"(", "A", ":", "B", ")", ";">> }
OptTexts == {{}} \cup {{t} : t \in GivenTexts}

\* No text needs more nodes than one and one for each "(" and ",".
NodesNeeded(newick) ==
  IF Given(newick)
  THEN 1 + Cardinality({i \in 1..Len(ValOf(newick)) : ValOf(newick)[i] \in {"(", ","}})
  ELSE 1

InitCodec == InitUpTo(0)

NewFromNewick ==
  \E newick \in OptTexts, format \in FormatCodes :
    /\ NodesNeeded(newick) <= Cardinality(Nodes \ alloc)
    /\ \E r \in {constructor(Heap, newick, format)} :
         Call("constructor", FreshNode(Heap), [newick |-> newick, format |-> format], r)

\* toString of the tree just read from a text; `format` keeps the format it
\* was read with.
TreeToString ==
  /\ last.op = "constructor"
  /\ last.err = NoError
  /\ Given(last.args.newick) /\ ValOf(last.args.newick) # <<>>
  /\ \E show_internal \in {{}, {TRUE}} :
       LET r == toString(Heap, last.ret, {}, show_internal)
       IN /\ last' = [op |-> "toString", self |-> last.ret,
                      args |-> [compact |-> {}, show_internal |-> show_internal,
                                format |-> last.args.format],
                      ret |-> r.ret, err |-> r.err]
          /\ pre' = Heap
          /\ UNCHANGED <<up, children, name, dist, support, alloc, budget>>

\* A second tree from the text toString returned; `first` keeps the first tree.
NewAgain ==
  /\ last.op = "toString"
  /\ NodesNeeded({last.ret}) <= Cardinality(Nodes \ alloc)
  /\ \E r \in {constructor(Heap, {last.ret}, last.args.format)} :
        /\ last' = [op |-> "constructorAgain", self |-> FreshNode(Heap),
                    args |-> [newick |-> {last.ret}, format |-> last.args.format,
                              show_internal |-> last.args.show_internal,
                              first |-> last.self],
                    ret |-> r.ret, err |-> r.err]
        /\ up' = r.st.up /\ children' = r.st.children /\ name' = r.st.name
        /\ dist' = r.st.dist /\ support' = r.st.support /\ alloc' = r.st.alloc
        /\ pre' = Heap
        /\ UNCHANGED budget

NextCodec == NewFromNewick \/ TreeToString \/ NewAgain
SpecCodec == InitCodec /\ [][NextCodec]_vars

\* Termination: one public mutator, then the call that walks upward.  A
\* mutator that precedes the counted call leaves the budget alone.
Before(opName, self, args, r) ==
  /\ last.op = "none"
  /\ up' = r.st.up /\ children' = r.st.children /\ name' = r.st.name
  /\ dist' = r.st.dist /\ support' = r.st.support /\ alloc' = r.st.alloc
  /\ last' = [op |-> opName, self |-> self, args |-> args, ret |-> r.ret, err |-> r.err]
  /\ pre' = Heap
  /\ UNCHANGED budget

AddChildBefore ==
  \E self \in alloc, child \in OptNode :
    /\ Given(child) \/ CanConstruct(Heap)
    /\ Before("addChildBefore", self, [child |-> child],
              addChild(Heap, self, child, {}, {}, {}))

DetachBefore ==
  \E self \in alloc : Before("detachBefore", self, <<>>, detach(Heap, self))

DeleteBefore ==
  \E self \in alloc, pn \in BOOLEAN, pb \in BOOLEAN :
    Before("deleteBefore", self, [prevent |-> pn, preserve |-> pb],
           delete(Heap, self, pn, pb))

AddBefore ==
  \E self \in alloc, value \in OptNode :
    /\ CanConstruct(Heap)
    /\ Before("addBefore", self, [value |-> value], add(Heap, self, value))

NextTerminates ==
  \/ AddChildBefore \/ RemoveChildBefore \/ DetachBefore \/ DeleteBefore \/ AddBefore
  \/ CommonAncestorOfFew \/ Delete
SpecTerminates == InitPlain /\ [][NextTerminates]_vars

\* swapChildren, also on a node a child was removed from before, and the
\* same call once more; `first` keeps the heap before the first call.
SwapAgain ==
  /\ last.op = "swapChildren"
  /\ LET r == swapChildren(Heap, last.self)
     IN /\ last' = [op |-> "swapChildrenAgain", self |-> last.self,
                    args |-> [first |-> pre], ret |-> r.ret, err |-> r.err]
        /\ up' = r.st.up /\ children' = r.st.children /\ name' = r.st.name
        /\ dist' = r.st.dist /\ support' = r.st.support /\ alloc' = r.st.alloc
        /\ pre' = Heap
        /\ UNCHANGED budget

NextSwap == RemoveChildBefore \/ SwapChildren \/ SwapAgain
SpecSwap == InitPlain /\ [][NextSwap]_vars

\* contains with a node, then with the name that node bears; the nodes of
\* the initial forests bear pairwise distinct names.
InitNamed ==
  \E k \in 1..MaxInitNodes : \E u \in ParentMaps(k) :
    InitFrom(ForestHeap(k, u, Identity(k), TRUE))

Contains ==
  \E self \in alloc, n \in alloc :
    Call("contains", self, [item |-> NodeItem(n)], contains(Heap, self, NodeItem(n)))

\* `first` keeps the answer to the node form.
ContainsName ==
  /\ last.op = "contains"
  /\ LET item == NameItem(name[last.args.item.v])
         r == contains(Heap, last.self, item)
     IN /\ last' = [op |-> "containsName", self |-> last.self,
                    args |-> [item |-> item, node |-> last.args.item.v, first |-> last.ret],
                    ret |-> r.ret, err |-> r.err]
        /\ up' = r.st.up /\ children' = r.st.children /\ name' = r.st.name
        /\ dist' = r.st.dist /\ support' = r.st.support /\ alloc' = r.st.alloc
        /\ pre' = Heap
        /\ UNCHANGED budget

NextContains == Contains \/ ContainsName
SpecContains == InitNamed /\ [][NextContains]_vars

\* ------------------------------------------------------------ shapes
\* n occurs in p.children.
Occurs(h, n, p) == \E i \in 1..Len(h.children[p]) : h.children[p][i] = n
Count(s, x) == Cardinality({i \in 1..Len(s) : s[i] = x})

\* n.up == p iff n occurs in p.children.
Consistent(h) == \A n, p \in h.alloc : (h.up[n] = p) <=> Occurs(h, n, p)

\* No node occurs twice in one children array or under two nodes.
NoSharing(h) ==
  /\ \A n, p \in h.alloc : Count(h.children[p], n) <= 1
  /\ \A n, p, q \in h.alloc : Occurs(h, n, p) /\ Occurs(h, n, q) => p = q

\* Following up from a node never revisits a node.
Acyclic(h) == \A n \in h.alloc : WalkEnds(h, n)

WellFormed(h) == Consistent(h) /\ NoSharing(h) /\ Acyclic(h)

Root(h, n) == LET w == PathTo(h, n) IN w[Len(w)]
Ancestors(h, n) == Range(PathTo(h, n))
Subtree(h, r) == {n \in h.alloc : r \in Ancestors(h, n)}

\* ------------------------------------------------------------ claims

\* C1: in every state the public mutators reach from freshly constructed
\* nodes, n.up == p if and only if n occurs in p.children.
C1_ParentChildConsistent == Consistent(Heap)

\* C2: in every state the public mutators reach, following up never revisits
\* a node, and no node occurs under two nodes or twice under one.
C2_SimpleRootedForest == Acyclic(Heap) /\ NoSharing(Heap)


\* The deepest node whose subtree contains every node of T.
CommonAncestors(h, T) == {c \in h.alloc : \A t \in T : c \in Ancestors(h, t)}
DeepestCommon(h, T) ==
  CHOOSE c \in CommonAncestors(h, T) : \A d \in CommonAncestors(h, T) : d \in Ancestors(h, c)

OneTree(h, T) == \A s, t \in T : Root(h, s) = Root(h, t)
Answer(call) == IF call.args.getPath THEN call.ret.common ELSE call.ret

\* C3: for two or more targets of one well-formed tree, whatever their names,
\* getCommonAncestor returns the deepest node whose subtree contains every
\* target.
C3_CommonAncestorIsDeepest ==
  (/\ last.op = "getCommonAncestor"
   /\ Len(last.args.targets) >= 2
   /\ WellFormed(pre)
   /\ OneTree(pre, Range(last.args.targets)))
  => /\ last.err = NoError
     /\ Answer(last) = DeepestCommon(pre, Range(last.args.targets))


\* The nodes reached from r through children arrays.
RECURSIVE Reach(_, _, _)
Reach(h, frontier, seen) ==
  IF frontier = {} THEN seen
  ELSE LET nxt == UNION {Range(Kids(h, m)) : m \in frontier} \ seen
       IN Reach(h, nxt, seen \cup nxt)

TreeOf(h, r) == Reach(h, {r}, {r})

\* s without the elements outside S (relative order kept).
Restrict(s, S) == SelectSeq(s, LAMBDA x : x \in S)

\* C4: after delete(preventNonBifurcating = true) on a non-root internal node
\* of a well-formed tree in which no non-root node has exactly one child, no
\* node of the resulting tree other than the root has exactly one child.
C4_DeleteKeepsBifurcating ==
  (/\ last.op = "delete"
   /\ last.args.prevent
   /\ WellFormed(pre) /\ Bifurcating(pre)
   /\ pre.up[last.self] # NULL
   /\ Kids(pre, last.self) # <<>>)
  => /\ last.err = NoError
     /\ \A m \in TreeOf(Heap, Root(pre, last.self)) \ {Root(pre, last.self)} :
          Len(Kids(Heap, m)) # 1

\* C4 witness: such a delete, of a node whose parent is itself below the root.
C4_Witness ==
  /\ last.op = "delete" /\ last.args.prevent /\ last.err = NoError
  /\ WellFormed(pre) /\ Bifurcating(pre)
  /\ pre.up[last.self] # NULL
  /\ pre.up[pre.up[last.self]] # NULL
  /\ Len(Kids(pre, last.self)) >= 2
  /\ last.self \notin TreeOf(Heap, Root(pre, last.self))

\* C5: delete(false, false) on a non-root node n with parent p takes n out of
\* p.children and clears n.up; every former child of n is once in p.children
\* with up == p; the other children of p keep their relative order; no other
\* node's parent or children change.
C5_DeleteSplicesOut ==
  (/\ last.op = "delete"
   /\ ~last.args.prevent /\ ~last.args.preserve
   /\ WellFormed(pre)
   /\ pre.up[last.self] # NULL)
  => LET n == last.self
         p == pre.up[n]
         moved == Range(Kids(pre, n))
         others == Range(Kids(pre, p)) \ {n}
     IN /\ last.err = NoError
        /\ ~Occurs(Heap, n, p)
        /\ up[n] = NULL
        /\ \A c \in moved : Count(children[p], c) = 1 /\ up[c] = p
        /\ Restrict(children[p], others) = Restrict(pre.children[p], others)
        /\ Range(Kids(Heap, p)) = others \cup moved
        /\ \A m \in alloc \ ({n} \cup moved) : up[m] = pre.up[m]
        /\ \A m \in alloc \ {n, p} : children[m] = pre.children[m]
        /\ alloc = pre.alloc

\* C5 witness: a node with children and sisters has been spliced out.
C5_Witness ==
  /\ last.op = "delete" /\ ~last.args.prevent /\ ~last.args.preserve
  /\ last.err = NoError
  /\ WellFormed(pre)
  /\ pre.up[last.self] # NULL
  /\ Len(Kids(pre, last.self)) >= 1
  /\ Len(Kids(pre, pre.up[last.self])) >= 2
  /\ up[last.self] = NULL


\* s without its first occurrence of x.
RemoveFirst(s, x) ==
  LET i == IndexOf(s, x)
  IN IF i = 0 THEN s ELSE SubSeq(s, 1, i - 1) \o SubSeq(s, i + 1, Len(s))

\* C6: a successful p.removeChild(c) leaves p.children one element shorter,
\* without c and without an empty slot, the other children in their previous
\* order; c.up is none, c's subtree is unchanged and c is returned.
C6_RemoveChildShrinksChildren ==
  (/\ last.op = "removeChild"
   /\ WellFormed(pre)
   /\ Occurs(pre, last.args.child, last.self))
  => LET p == last.self
         c == last.args.child
     IN /\ last.err = NoError
        /\ last.ret = c
        /\ ~Occurs(Heap, c, p)
        /\ Len(children[p]) = Len(pre.children[p]) - 1
        /\ \A i \in 1..Len(children[p]) : children[p][i] # EMPTY
        /\ children[p] = RemoveFirst(pre.children[p], c)
        /\ up[c] = NULL
        /\ \A m \in Subtree(pre, c) : children[m] = pre.children[m]
        /\ \A m \in Subtree(pre, c) \ {c} : up[m] = pre.up[m]

\* C7: p.removeChild(c) for a c that is no direct child of p fails with the
\* child-not-found error and changes no node's parent or children.
C7_RemoveChildNotFound ==
  (/\ last.op = "removeChild"
   /\ ~Occurs(pre, last.args.child, last.self))
  => /\ last.err = ChildNotFound
     /\ up = pre.up
     /\ children = pre.children
     /\ Heap = pre

\* C7 witness: removeChild has failed for a node attached under another node.
C7_Witness ==
  /\ last.op = "removeChild"
  /\ last.err = ChildNotFound
  /\ pre.up[last.args.child] # NULL
  /\ pre.up[last.args.child] # last.self

\* The value a field of c held before the call (a fresh node holds the
\* constructor's defaults).
OldName(c) == IF c \in pre.alloc THEN pre.name[c] ELSE DEFAULT_NAME
OldDist(c) == IF c \in pre.alloc THEN pre.dist[c] ELSE DEFAULT_DIST
OldSupport(c) == IF c \in pre.alloc THEN pre.support[c] ELSE DEFAULT_SUPPORT

\* C8: addChild appends exactly one node (the given one, or a fresh default
\* node) as the last element of p.children, sets its up to p, replaces name,
\* dist and support only by arguments that are supplied and truthy, leaves
\* p's earlier children alone and returns the node.
C8_AddChildAppends ==
  (last.op = "addChild")
  => LET p == last.self
         a == last.args
         c == last.ret
     IN /\ last.err = NoError
        /\ a.child # {} => a.child = {c} /\ alloc = pre.alloc
        /\ a.child = {} => c \notin pre.alloc /\ alloc = pre.alloc \cup {c}
        /\ children[p] = Append(pre.children[p], c)
        /\ up[c] = p
        /\ name[c] = IF a.name \in {{}, {""}} THEN OldName(c) ELSE ValOf(a.name)
        /\ dist[c] = IF a.dist \in {{}, {0}} THEN OldDist(c) ELSE ValOf(a.dist)
        /\ support[c] = IF a.support \in {{}, {0}} THEN OldSupport(c) ELSE ValOf(a.support)
        /\ \A m \in Nodes \ {p} : children[m] = pre.children[m]
        /\ \A m \in pre.alloc \ {c} :
             /\ up[m] = pre.up[m] /\ name[m] = pre.name[m]
             /\ dist[m] = pre.dist[m] /\ support[m] = pre.support[m]

\* C8 witness: a node was added with dist 0 and kept its branch length.
C8_Witness ==
  /\ last.op = "addChild"
  /\ last.args.dist = {0}
  /\ last.args.child # {}
  /\ dist[last.ret] = DEFAULT_DIST
  /\ Len(children[last.self]) >= 2

\* C9: detach on a non-root node takes it out of its former parent's
\* children, clears its up, returns it and changes no other relation; on a
\* root it changes nothing and returns the node.  An addChild of the detached
\* node that follows makes it a child of the receiver and of no other node.
C9_DetachCutsAndPastes ==
  /\ (last.op = "detach" /\ WellFormed(pre))
     => LET n == last.self
            p == pre.up[n]
        IN /\ last.err = NoError
           /\ last.ret = n
           /\ up[n] = NULL
           /\ \A m \in alloc : ~Occurs(Heap, n, m)
           /\ \A m \in alloc \ {n} : up[m] = pre.up[m]
           /\ \A m \in alloc \ {p} : children[m] = pre.children[m]
           /\ p # NULL => Kids(Heap, p) = Restrict(Kids(pre, p), alloc \ {n})
           /\ p = NULL => Heap = pre
  /\ (last.op = "paste" /\ WellFormed(pre))
     => LET n == last.ret
            q == last.self
        IN /\ last.err = NoError
           /\ Occurs(Heap, n, q)
           /\ up[n] = q
           /\ \A m \in alloc \ {q} : ~Occurs(Heap, n, m)
           /\ Count(children[q], n) = 1

\* C9 witness: a node with children was cut from its parent and pasted under
\* another node.
C9_Witness ==
  /\ last.op = "paste"
  /\ Kids(Heap, last.ret) # <<>>
  /\ \E m \in alloc \ {last.self} : EMPTY \in Range(children[m])
  /\ WellFormed(Heap)


\* The leaves below r: nodes of r's tree without a child.
LeavesOf(h, r) == {m \in TreeOf(h, r) : Kids(h, m) = <<>>}
DistinctNames(h) == \A m, n \in h.alloc : m # n => h.name[m] # h.name[n]

\* C10: after root.prune(targets) on a well-formed tree with pairwise distinct
\* names, for a non-empty list of targets of that tree given as nodes or as
\* names, the root is still the root, every target is reachable from it and
\* every leaf of the tree is a target or the root.
C10_PruneLeavesAreTargets ==
  (/\ last.op = "prune"
   /\ WellFormed(pre) /\ DistinctNames(pre)
   /\ pre.up[last.self] = NULL
   /\ last.args.targets # <<>>
   /\ Range(last.args.targets) \subseteq TreeOf(pre, last.self))
  => /\ last.err = NoError
     /\ up[last.self] = NULL
     /\ Range(last.args.targets) \subseteq TreeOf(Heap, last.self)
     /\ LeavesOf(Heap, last.self) \subseteq Range(last.args.targets) \cup {last.self}

\* The nodes at which the lineages of two targets join.
Joins(h, T) == {DeepestCommon(h, {x, y}) : x \in T, y \in T}

\* The nodes prune is to keep: the root, the targets and the joins.
Kept(h, r, T) == {r} \cup T \cup Joins(h, T)

\* C11: after root.prune(targets) on a well-formed tree with pairwise distinct
\* names the tree below the root holds exactly the root, the targets and the
\* deepest node at which the lineages of two targets join, and a kept node is
\* an ancestor of another after pruning iff it was before.
C11_PruneConservesTopology ==
  (/\ last.op = "prune"
   /\ WellFormed(pre) /\ DistinctNames(pre)
   /\ pre.up[last.self] = NULL
   /\ last.args.targets # <<>>
   /\ Range(last.args.targets) \subseteq TreeOf(pre, last.self))
  => LET r == last.self
         keep == Kept(pre, r, Range(last.args.targets))
     IN /\ last.err = NoError
        /\ TreeOf(Heap, r) = keep
        /\ \A a, b \in keep : (a \in Ancestors(Heap, b)) <=> (a \in Ancestors(pre, b))


\* The items of a call of _translateNodes, by kind.
NamesIn(items) == {items[i].v : i \in {j \in 1..Len(items) : items[j].kind = "name"}}
NodesIn(items) == {items[i].v : i \in {j \in 1..Len(items) : items[j].kind = "node"}}
OnlyNodesAndNames(items) == \A i \in 1..Len(items) : items[i].kind \in {"node", "name"}

\* The nodes of r's tree that bear the name s.
Bearers(h, r, s) == {n \in TreeOf(h, r) : h.name[n] = s}

\* The nodes a returned value holds: a string holds none.
NodesOf(v) == IF v.isArray THEN Range(v.items) ELSE {}

\* C12: when every name in items is borne by exactly one node of root's tree
\* and every other item is a node, _translateNodes succeeds and returns a
\* collection of exactly the supplied nodes and the bearers of the supplied
\* names, and changes nothing.
C12_TranslateResolves ==
  (/\ last.op = "_translateNodes"
   /\ WellFormed(pre)
   /\ OnlyNodesAndNames(last.args.nodes)
   /\ \A s \in NamesIn(last.args.nodes) : Cardinality(Bearers(pre, last.self, s)) = 1)
  => /\ last.err = NoError
     /\ last.ret.isArray
     /\ NodesOf(last.ret) =
          NodesIn(last.args.nodes) \cup
          UNION {Bearers(pre, last.self, s) : s \in NamesIn(last.args.nodes)}
     /\ Heap = pre

\* The supplied names that no node of root's tree bears.
Unresolved(h, r, items) == {s \in NamesIn(items) : Bearers(h, r, s) = {}}

\* C13: when no supplied name is borne by two nodes, _translateNodes fails
\* with the name(s)-not-found error exactly when a supplied name is borne by
\* no node of root's tree, and the error lists exactly those names.
C13_TranslateNotFound ==
  (/\ last.op = "_translateNodes"
   /\ WellFormed(pre)
   /\ \A s \in NamesIn(last.args.nodes) : Cardinality(Bearers(pre, last.self, s)) <= 1)
  => /\ (last.err = NamesNotFound) <=> (Unresolved(pre, last.self, last.args.nodes) # {})
     /\ (last.err = NamesNotFound) => (last.ret = Unresolved(pre, last.self, last.args.nodes))

\* C14: when a supplied name is borne by more than one node of root's tree,
\* _translateNodes fails with the ambiguous-name error.
C14_TranslateAmbiguous ==
  (/\ last.op = "_translateNodes"
   /\ WellFormed(pre)
   /\ \E s \in NamesIn(last.args.nodes) : Cardinality(Bearers(pre, last.self, s)) >= 2)
  => last.err = AmbiguousName



\* C15: getCommonAncestor fails on an empty target list; on exactly one
\* target it returns that target, paired with an empty path map when getPath
\* is set.  The tree is not touched.
C15_CommonAncestorTrivialCases ==
  (last.op = "getCommonAncestor")
  => LET t == last.args.targets
     IN /\ Len(t) = 0 => last.err = EmptyTargets
        /\ Len(t) = 1 =>
             /\ last.err = NoError
             /\ ~last.args.getPath => last.ret = t[1]
             /\ last.args.getPath =>
                  /\ last.ret.common = t[1]
                  /\ DOMAIN last.ret.paths = {}
        /\ Heap = pre

\* C15 witness: one target below a root, asked with its paths.
C15_Witness ==
  /\ last.op = "getCommonAncestor"
  /\ Len(last.args.targets) = 1
  /\ last.args.getPath
  /\ last.err = NoError
  /\ pre.up[last.args.targets[1]] # NULL
  /\ last.ret.common = last.args.targets[1]



\* C16: on two or more targets of a well-formed forest getCommonAncestor
\* fails with the not-connected error when no node is an ancestor of every
\* target, and does not fail this way when the targets are of one tree.
C16_DisconnectedTargetsFail ==
  (/\ last.op = "getCommonAncestor"
   /\ Len(last.args.targets) >= 2
   /\ WellFormed(pre))
  => /\ CommonAncestors(pre, Range(last.args.targets)) = {} => last.err = NotConnected
     /\ OneTree(pre, Range(last.args.targets)) => last.err # NotConnected



\* C17: delete(false, true) on a non-root node n of branch length d adds d to
\* the dist of n's child when n has exactly one child, to the dist of n's
\* parent when n has two or more children, and changes no other dist; it
\* changes no dist when n is a leaf.
C17_DeletePreservesBranchLength ==
  (/\ last.op = "delete"
   /\ ~last.args.prevent /\ last.args.preserve
   /\ WellFormed(pre)
   /\ pre.up[last.self] # NULL)
  => LET n == last.self
         p == pre.up[n]
         d == pre.dist[n]
         kids == Kids(pre, n)
     IN /\ last.err = NoError
        /\ Len(kids) = 1 => dist = [pre.dist EXCEPT ![kids[1]] = @ + d]
        /\ Len(kids) >= 2 => dist = [pre.dist EXCEPT ![p] = @ + d]
        /\ Len(kids) = 0 => dist = pre.dist



\* C18: delete on a node without a parent, whatever its two flags, raises no
\* error and changes no node's up, children, dist, support or name.
C18_DeleteOnRootIsNoOp ==
  (/\ last.op = "delete"
   /\ pre.up[last.self] = NULL)
  => /\ last.err = NoError
     /\ up = pre.up /\ children = pre.children
     /\ dist = pre.dist /\ support = pre.support /\ name = pre.name
     /\ Heap = pre

\* C18 witness: delete with both flags set on a root that has a single child.
C18_Witness ==
  /\ last.op = "delete"
  /\ last.args.prevent /\ last.args.preserve
  /\ pre.up[last.self] = NULL
  /\ Len(pre.children[last.self]) = 1
  /\ Kids(pre, last.self) # <<>>
  /\ last.err = NoError
  /\ children = pre.children



\* C19: addSister and remove_sister on a node without a parent fail and
\* change nothing; on a node n with a parent, n.addSister(s, name, dist) has
\* the effect and the result of n.up.addChild(s, name, dist).
C19_SisterOperations ==
  /\ (last.op \in {"addSister", "remove_sister"} /\ pre.up[last.self] = NULL)
     => /\ last.err # NoError
        /\ up = pre.up /\ children = pre.children
        /\ Heap = pre
  /\ (last.op = "addSister" /\ pre.up[last.self] # NULL)
     => LET r == addChild(pre, pre.up[last.self], last.args.child,
                          last.args.name, last.args.dist, {})
        IN /\ last.err = r.err
           /\ last.ret = r.ret
           /\ Heap = r.st

\* C19 witness: a named sister was added next to a node that has a parent.
C19_Witness ==
  /\ last.op = "addSister"
  /\ pre.up[last.self] # NULL
  /\ last.err = NoError
  /\ last.args.name = {"X"}
  /\ last.ret # last.self
  /\ up[last.ret] = pre.up[last.self]
  /\ name[last.ret] = "X"



\* C20: on a node n with a parent, n.remove_sister(s) with a node s supplied
\* has the effect and the outcome of n.up.removeChild(s): s is removed and
\* returned when it is a child of n's parent, and the call fails with the
\* child-not-found error when it is not.
C20_RemoveSisterIsRemoveChild ==
  (/\ last.op = "remove_sister"
   /\ Given(last.args.sister)
   /\ pre.up[last.self] # NULL)
  => LET r == removeChild(pre, pre.up[last.self], ValOf(last.args.sister))
     IN /\ last.err = r.err
        /\ last.ret = r.ret
        /\ Heap = r.st



\* The position of n in a sequence without repetition.
Pos(seq, n) == CHOOSE i \in 1..Len(seq) : seq[i] = n
Depth(h, n) == Len(PathTo(h, n))
ProperAncestor(h, a, n) == a # n /\ a \in Ancestors(h, n)
StoredBefore(h, a, b) ==
  /\ a # b /\ h.up[a] # NULL /\ h.up[a] = h.up[b]
  /\ IndexOf(h.children[h.up[a]], a) < IndexOf(h.children[h.up[a]], b)

Visible(h, r, L) ==
  {n \in TreeOf(h, r) : \A a \in TreeOf(h, r) : ProperAncestor(h, a, n) => a \notin L}

\* C23: with an isLeafFn, traverse and getDescendants produce a node the
\* function answers true for and visit none of its descendants, and getLeaves
\* returns the visited nodes it answers true for; without it getLeaves
\* returns the nodes without children and getDescendants every node below
\* the start node.  The tree is not touched.
C23_LeafFunction ==
  (/\ last.op \in {"traverse", "getDescendants", "getLeaves"}
   /\ WellFormed(pre))
  => LET f == last.args.isLeafFn
         r == last.self
         seen == IF f.kind = "function" THEN Visible(pre, r, f.leaves) ELSE TreeOf(pre, r)
     IN /\ last.err = NoError
        /\ Heap = pre
        /\ last.op = "traverse" => Range(last.ret) = seen
        /\ last.op = "getDescendants" => Range(last.ret) = seen \ {r}
        /\ last.op = "getLeaves" =>
             Range(last.ret) = IF f.kind = "function" THEN seen \cap f.leaves
                               ELSE {n \in seen : Kids(pre, n) = <<>>}

\* C24: a tree built from an empty or white-space-only text is rejected with
\* a parse error and no default node comes back; after any failed
\* construction the caller holds no node and the heap is as before.
C24_EmptyTextRejected ==
  last.op = "constructor"
  => /\ (Given(last.args.newick) /\ Blank(ValOf(last.args.newick)))
          => last.err = ParseError
     /\ last.err # NoError => (last.ret = NULL /\ Heap = pre)

\* The trees below a and b are alike: shape, child order, names and lengths.
RECURSIVE Alike(_, _, _)
Alike(h, a, b) ==
  /\ h.name[a] = h.name[b]
  /\ h.dist[a] = h.dist[b]
  /\ Len(Kids(h, a)) = Len(Kids(h, b))
  /\ \A i \in 1..Len(Kids(h, a)) : Alike(h, Kids(h, a)[i], Kids(h, b)[i])

\* C25: the text toString() gives for a tree built from an accepted text
\* yields, with the same format, a tree like the first.
C25_RoundTrip ==
  (/\ last.op = "constructorAgain"
   /\ last.args.show_internal = {})
  => /\ last.err = NoError
     /\ Alike(Heap, last.args.first, last.ret)

\* The same with the names of the internal nodes shown.
RoundTripShown ==
  (/\ last.op = "constructorAgain"
   /\ last.args.show_internal = {TRUE})
  => /\ last.err = NoError
     /\ Alike(Heap, last.args.first, last.ret)

\* C26: in a state a public mutator leaves behind, the upward walk of
\* getCommonAncestor and the upward recursion of delete come to an end.
C26_Terminates ==
  last.op \in {"getCommonAncestor", "delete"} => last.err # Diverges

\* C27: swapChildren puts the receiver's children in the reverse order and
\* changes nothing else (the same children, every up, every other node's
\* children, every attribute); on fewer than two children it changes
\* nothing; called twice it restores the heap.
C27_SwapChildren ==
  /\ last.op = "swapChildren"
     => LET n == last.self
            old == Kids(pre, n)
        IN /\ last.err = NoError
           /\ Len(Kids(Heap, n)) = Len(old)
           /\ \A i \in 1..Len(old) : Kids(Heap, n)[i] = old[Len(old) + 1 - i]
           /\ \A m \in alloc \ {n} : children[m] = pre.children[m]
           /\ up = pre.up /\ name = pre.name /\ dist = pre.dist
           /\ support = pre.support /\ alloc = pre.alloc
           /\ Len(old) < 2 => Kids(Heap, n) = old
  /\ last.op = "swapChildrenAgain"
     => (last.err = NoError /\ Heap = last.args.first)

\* C27 witness: three children were put in the reverse order.
C27_Witness ==
  /\ last.op = "swapChildren"
  /\ Len(Kids(pre, last.self)) >= 3
  /\ Kids(Heap, last.self) # Kids(pre, last.self)
  /\ Kids(Heap, last.self)[1] = Kids(pre, last.self)[Len(Kids(pre, last.self))]

\* The sum of the branch lengths from a up to its ancestor anc, and along the
\* path between two nodes of one tree.
RECURSIVE DistUp(_, _, _)
DistUp(h, a, anc) == IF a = anc THEN 0 ELSE h.dist[a] + DistUp(h, h.up[a], anc)
PathDist(h, a, b) ==
  LET c == DeepestCommon(h, {a, b}) IN DistUp(h, a, c) + DistUp(h, b, c)

\* The nodes of the tree of n that are still below its root.
Survivors(n) == {m \in Subtree(pre, Root(pre, n)) : Root(pre, n) \in Ancestors(Heap, m)}

\* C28: delete with preserve_branch_length on a non-root node of a
\* well-formed tree, with or without prevent_nondicotomic, leaves the sum of
\* branch lengths between every two surviving nodes of the tree as it was.
C28_DeleteKeepsDistances ==
  (/\ last.op = "delete"
   /\ last.args.preserve
   /\ WellFormed(pre)
   /\ pre.up[last.self] # NULL)
  => /\ last.err = NoError
     /\ \A a \in Survivors(last.self), b \in Survivors(last.self) :
          PathDist(Heap, a, b) = PathDist(pre, a, b)

\* C29: remove_sister() without an argument on a node that has a parent and
\* at least one sister returns the first sister and takes it out of the
\* tree: it is no child of the parent any more and its up is null.
C29_RemoveFirstSister ==
  (/\ last.op = "remove_sister"
   /\ ~Given(last.args.sister)
   /\ WellFormed(pre)
   /\ pre.up[last.self] # NULL
   /\ Len(Kids(pre, pre.up[last.self])) >= 2)
  => LET p == pre.up[last.self]
         first == Head(SelectSeq(Kids(pre, p), LAMBDA ch : ch # last.self))
     IN /\ last.err = NoError
        /\ last.ret = first
        /\ ~Occurs(Heap, first, p)
        /\ up[first] = NULL

\* C30: in a well-formed forest with pairwise distinct names, contains gives
\* for a node and for the name of that node the same answer, also when the
\* node is the receiver.
C30_ContainsFormsAgree ==
  (/\ last.op = "containsName"
   /\ WellFormed(pre) /\ DistinctNames(pre))
  => /\ last.err = NoError
     /\ last.ret = last.args.first


====
